---------------------------- MODULE Spec2Model ----------------------------
(***************************************************************************)
(* Model of staffpad_xml_cleanup.py: InstrumentManager builds an ordered   *)
(* table of raw instrument names, discovers the parts and instruments of a *)
(* MusicXML part-list, numbers them per family, strips the number of the   *)
(* families that occur once, and rewrites the labels in place.             *)
(*                                                                         *)
(* Names are TLA+ strings; Python's `in`, f-strings and str(int) are       *)
(* modelled by SubSeq, \o and ToString on them.                            *)
(***************************************************************************)
EXTENDS Integers, Sequences, FiniteSets, TLC

(***************************************************************************)
(* Bounds of the model.                                                    *)
(***************************************************************************)
\* The largest number of entities (score-part and score-instrument
\* elements together) of a document.
MaxEntities == 3

\* The number of distinct identifiers the entities of a document draw from.
MaxIds == 3

\* The identifiers a score-part or a score-instrument may carry.  Both kinds
\* draw from the same set, so that a part and an instrument may share one
\* and two entities of one kind may collide.
IdOf(k) == "P" \o ToString(k)
Ids == {IdOf(k) : k \in 1..MaxIds}

\* The labels the documents are built from: a canonical name, a
\* library-branded name of the same family, a branded name whose family ends
\* in a digit, a name whose canonical family is no key of the table, and a
\* name the table lacks.
Labels == {"Timpani", "CinePerc Timpani", "Cinestrings Solo Violin 1",
           "Berlin Brass Horn 1", "Kazoo"}

(***************************************************************************)
(* _create_instrument_swap_map: the OrderedDict as a sequence of           *)
(* <<key, value>> pairs in insertion order.                                *)
(***************************************************************************)
wind == <<"Piccolo", "Alto Flute", "Bass Flute", "Flutes", "Flute",
          "Oboes", "Oboe", "English Horn", "Contrabass Clarinet",
          "Bass Clarinet", "Eb Clarinet", "Clarinets", "Clarinet",
          "Contrabassoon", "Bassoons", "Bassoon", "Cor Anglais">>
horn == <<"12 French Horns", "2 French Horns", "4 French Horns">>
brass == <<"Horn Ensemble", "CineBrass French Horn", "2 Trumpets",
           "Trumpet Ensemble", "Trumpet", "Bass Trombone", "Trombones",
           "Trombone Ensemble", "Trombone", "Tuba">>
percussion == <<"Timpani", "Cymbals", "Glockenspiel", "Marimba",
                "Vibraphone", "Bass Drum 36in", "Bowed Gongs">>
keys == <<"Harp">>
voice == <<"Sopranos", "Full Chorus", "Boys Choir", "Solo Soprano">>
strings == <<"Violin 1", "Violin 2", "Viola", "Cello", "Bass",
             "Violins 1", "Violins 2", "Violas", "Cellos", "Basses">>
solo_strings == <<"Violin 1", "Violin 2", "Viola", "Cello", "Bass">>
section_strings == <<"Violins 1", "Violins 2", "Violas", "Cellos", "Basses">>
chamber_strings == <<"Violas", "Cellos", "Basses">>

\* sections.items(): a dict iterates in the order its keys were written.
sections == wind \o horn \o brass \o percussion \o keys \o voice \o strings

\* The assignments swap_map[f"{kp}{x}"] = f"{vp}{x}" for x in seq, in order.
Assignments(kp, seq, vp) == [i \in DOMAIN seq |-> <<kp \o seq[i], vp \o seq[i]>>]

\* The loop of lines 82-84: two assignments per string instrument.
RECURSIVE SoloAssignments(_)
SoloAssignments(seq) ==
    IF seq = <<>> THEN <<>>
    ELSE << <<"Cinestrings Solo " \o Head(seq), "Solo " \o Head(seq)>>,
            <<"First Chair " \o Head(seq), "Solo " \o Head(seq)>> >>
         \o SoloAssignments(Tail(seq))

\* Every assignment to swap_map, in program order.
swap_map_assignments ==
       Assignments("", sections, "")
    \o << <<"Cor Anglais", "English Horn">> >>
    \o [i \in 1..4 |-> <<"Berlin Brass Horn " \o ToString(i), "French Horn">>]
    \o << <<"Horn Ensemble", "4 French Horns">>,
          <<"CineBrass French Horn", "French Horn">>,
          <<"Trumpet Ensemble", "2 Trumpets">>,
          <<"Trombone Ensemble", "Trombones">> >>
    \o Assignments("CinePerc ", percussion, "")
    \o Assignments("VOXOS ", voice, "")
    \o Assignments("Cinestrings Solo ", solo_strings, "Solo ")
    \o SoloAssignments(solo_strings)
    \o Assignments("Berlin Strings ", section_strings, "")
    \o << <<"Spitfire Chamber Strings Violins I", "Violins 1">>,
          <<"Spitfire Chamber Strings Violins II", "Violins 2">> >>
    \o Assignments("Spitfire Chamber Strings ", chamber_strings, "")

\* The OrderedDict the assignments leave: a key stands where its first
\* assignment put it (OrderedDict.__setitem__ on a key already present keeps
\* its place) and carries the value of its last assignment.
OrderedDictOf(assignments) ==
    LET n == Len(assignments)
        IsFirst(i) == \A j \in 1..(i - 1) : assignments[j][1] # assignments[i][1]
        IsLast(i) == \A j \in (i + 1)..n : assignments[j][1] # assignments[i][1]
        LastValue(key) ==
            assignments[CHOOSE i \in 1..n : assignments[i][1] = key /\ IsLast(i)][2]
        indexed == [i \in 1..n |-> <<i, assignments[i][1]>>]
        firsts == SelectSeq(indexed, LAMBDA e : IsFirst(e[1]))
    IN  [p \in DOMAIN firsts |-> <<firsts[p][2], LastValue(firsts[p][2])>>] \o <<>>

instrument_swap_map == OrderedDictOf(swap_map_assignments)

(***************************************************************************)
(* _find_generic_name                                                      *)
(***************************************************************************)
\* Python's `instrument in name` on two str: instrument occurs in name as a
\* contiguous run of characters.
StrIn(instrument, name) ==
    \E off \in 0..(Len(name) - Len(instrument)) :
        SubSeq(name, off + 1, off + Len(instrument)) = instrument

\* The places of the table, in insertion order: what iterating over
\* instrument_swap_map.keys() visits.
KeyOrder == [i \in DOMAIN instrument_swap_map |-> i] \o <<>>

\* Faulty variant of FirstKeyIn: the loop does not return at the first key
\* that occurs in name but keeps the last one.
LastKeyIn(name) ==
    LET hits == SelectSeq(KeyOrder, LAMBDA i : StrIn(instrument_swap_map[i][1], name))
    IN  IF hits = <<>> THEN 0 ELSE hits[Len(hits)]

\* The loop of lines 106-107 returns at the first key, in insertion order,
\* that occurs in name: the place of that key, 0 when the loop falls through.
FirstKeyIn(name) ==
    LET hits == SelectSeq(KeyOrder, LAMBDA i : StrIn(instrument_swap_map[i][1], name))
    IN  IF hits = <<>> THEN 0 ELSE Head(hits)

\* Python's None.
None == [none |-> TRUE]

(***************************************************************************)
(* collections.Counter: a sequence of <<key, count>> pairs in the order    *)
(* the keys were first counted.                                            *)
(***************************************************************************)
\* counter[key]: a Counter reads 0 for a key it lacks.
CounterGet(counter, key) ==
    IF \E i \in DOMAIN counter : counter[i][1] = key
    THEN counter[CHOOSE i \in DOMAIN counter : counter[i][1] = key][2]
    ELSE 0

\* Faulty variant of CounterIncrement: counter[key] = 1.
CounterIncrementStuck(counter, key) ==
    IF \E i \in DOMAIN counter : counter[i][1] = key
    THEN [i \in DOMAIN counter |->
            IF counter[i][1] = key THEN <<key, 1>> ELSE counter[i]]
    ELSE Append(counter, <<key, 1>>)

\* counter[key] += 1
CounterIncrement(counter, key) ==
    IF \E i \in DOMAIN counter : counter[i][1] = key
    THEN [i \in DOMAIN counter |->
            IF counter[i][1] = key THEN <<key, counter[i][2] + 1>> ELSE counter[i]]
    ELSE Append(counter, <<key, 1>>)

\* Faulty variant of _find_generic_name: when the loop falls through it
\* returns a rename map for the name as it is instead of None.
_find_generic_name_fallthrough(name, counter) ==
    LET i == FirstKeyIn(name) IN
    IF i = 0
    THEN [rename_map |-> [original_name |-> name, swap_name |-> name \o " 1"],
          counter |-> counter, key |-> 0]
    ELSE LET swap_name == instrument_swap_map[i][2]
             counted == CounterIncrement(counter, swap_name)
         IN  [rename_map |->
                  [original_name |-> name,
                   swap_name |-> swap_name \o " "
                                    \o ToString(CounterGet(counted, swap_name))],
              counter |-> counted, key |-> i]

\* Faulty variant of _find_generic_name: the number is appended to the
\* original name, not to the canonical one.
_find_generic_name_numbers_original(name, counter) ==
    LET i == FirstKeyIn(name) IN
    IF i = 0 THEN [rename_map |-> None, counter |-> counter, key |-> 0]
    ELSE LET swap_name == instrument_swap_map[i][2]
             counted == CounterIncrement(counter, swap_name)
         IN  [rename_map |->
                  [original_name |-> name,
                   swap_name |-> name \o " "
                                    \o ToString(CounterGet(counted, swap_name))],
              counter |-> counted, key |-> i]

\* The whole of _find_generic_name: the rename map it returns (None when no
\* key occurs in name), the counter as it leaves it, and the place in the
\* table of the key the loop stopped at (0 when it fell through).
_find_generic_name(name, counter) ==
    LET i == FirstKeyIn(name) IN
    IF i = 0 THEN [rename_map |-> None, counter |-> counter, key |-> 0]
    ELSE LET swap_name == instrument_swap_map[i][2]
             counted == CounterIncrement(counter, swap_name)
             numbered_swap_name ==
                 swap_name \o " " \o ToString(CounterGet(counted, swap_name))
         IN  [rename_map |-> [original_name |-> name,
                              swap_name |-> numbered_swap_name],
              counter |-> counted, key |-> i]

(***************************************************************************)
(* The document: the score-part elements of the part-list, each followed   *)
(* by its score-instrument elements, in document order.  Every loop of the *)
(* program visits the entities in this order.                              *)
(***************************************************************************)
Entities == [kind : {"part", "instrument"}, id : Ids, name : Labels]

\* An entity may follow the entities of d.  A score-instrument lies inside a
\* score-part, so a part comes first.  The program only compares identifiers
\* for equality, so the documents take them in order of first use within
\* each kind: IdOf(k + 1) appears on an entity only after IdOf(k) appeared
\* on an earlier entity of its kind.
MayFollow(d, e) ==
    /\ d = <<>> => e.kind = "part"
    /\ \A k \in 1..(MaxIds - 1) :
          e.id = IdOf(k + 1) =>
              \E j \in DOMAIN d : d[j].kind = e.kind /\ d[j].id = IdOf(k)

RECURSIVE DocumentsOfLength(_)
DocumentsOfLength(n) ==
    IF n = 0 THEN {<<>>}
    ELSE {Append(p[1], p[2]) :
            p \in {q \in DocumentsOfLength(n - 1) \X Entities :
                       MayFollow(q[1], q[2])}}

Documents == UNION {DocumentsOfLength(n) : n \in 0..MaxEntities}

VARIABLES
    doc,                     \* the tree: the entities with their live labels
    doc0,                    \* the tree as it was when the manager was built
    pc,                      \* "discover", "rename", "done" or "failed"
    pos,                     \* the entity the running loop is at
    part_rename_dict,        \* self.part_rename_dict: id -> rename map
    instrument_rename_dict,  \* self.instrument_rename_dict
    part_counter,            \* self.part_counter
    instrument_counter,      \* self.instrument_counter
    rerun,                   \* the tree was produced by an earlier process_xml
    matched_key              \* history: per entity discovered so far, the place
                             \* in the table of the key its label matched, or 0

vars == <<doc, doc0, pc, pos, part_rename_dict, instrument_rename_dict,
          part_counter, instrument_counter, rerun, matched_key>>

\* rename_dict[element_id] = rename_map
DictSet(rename_dict, element_id, rename_map) ==
    [x \in DOMAIN rename_dict \cup {element_id} |->
        IF x = element_id THEN rename_map ELSE rename_dict[x]]

\* rename_dict.get(element_id)
DictGet(rename_dict, element_id) ==
    IF element_id \in DOMAIN rename_dict THEN rename_dict[element_id] ELSE None

\* InstrumentManager(tree) on a tree just parsed.
Init ==
    /\ doc \in Documents
    /\ doc0 = doc
    /\ pc = "discover"
    /\ pos = 1
    /\ part_rename_dict = <<>>
    /\ instrument_rename_dict = <<>>
    /\ part_counter = <<>>
    /\ instrument_counter = <<>>
    /\ rerun = FALSE
    /\ matched_key = <<>>

\* find_generic_instrument_names, one score-part: its part-name.
DiscoverPart ==
    /\ pc = "discover"
    /\ pos <= Len(doc)
    /\ doc[pos].kind = "part"
    /\ LET found == _find_generic_name(doc[pos].name, part_counter) IN
        /\ part_counter' = found.counter
        /\ matched_key' = Append(matched_key, found.key)
        /\ part_rename_dict' =
              IF found.rename_map # None
              THEN DictSet(part_rename_dict, doc[pos].id, found.rename_map)
              ELSE part_rename_dict
    /\ pos' = pos + 1
    /\ UNCHANGED <<doc, doc0, pc, instrument_rename_dict, instrument_counter, rerun>>

\* Faulty variant of DiscoverInstrument: instruments are counted in the
\* counter of the parts.
DiscoverInstrumentSharedCounter ==
    /\ pc = "discover"
    /\ pos <= Len(doc)
    /\ doc[pos].kind = "instrument"
    /\ LET found == _find_generic_name(doc[pos].name, part_counter) IN
        /\ part_counter' = found.counter
        /\ matched_key' = Append(matched_key, found.key)
        /\ instrument_rename_dict' =
              IF found.rename_map # None
              THEN DictSet(instrument_rename_dict, doc[pos].id, found.rename_map)
              ELSE instrument_rename_dict
    /\ pos' = pos + 1
    /\ UNCHANGED <<doc, doc0, pc, part_rename_dict, instrument_counter, rerun>>

\* Faulty variant of DiscoverInstrument: the rename maps of the instruments
\* go into the rename dict of the parts.
DiscoverInstrumentSharedDict ==
    /\ pc = "discover"
    /\ pos <= Len(doc)
    /\ doc[pos].kind = "instrument"
    /\ LET found == _find_generic_name(doc[pos].name, instrument_counter) IN
        /\ instrument_counter' = found.counter
        /\ matched_key' = Append(matched_key, found.key)
        /\ part_rename_dict' =
              IF found.rename_map # None
              THEN DictSet(part_rename_dict, doc[pos].id, found.rename_map)
              ELSE part_rename_dict
    /\ pos' = pos + 1
    /\ UNCHANGED <<doc, doc0, pc, instrument_rename_dict, part_counter, rerun>>

\* find_generic_instrument_names, one score-instrument of the score-part.
DiscoverInstrument ==
    /\ pc = "discover"
    /\ pos <= Len(doc)
    /\ doc[pos].kind = "instrument"
    /\ LET found == _find_generic_name(doc[pos].name, instrument_counter) IN
        /\ instrument_counter' = found.counter
        /\ matched_key' = Append(matched_key, found.key)
        /\ instrument_rename_dict' =
              IF found.rename_map # None
              THEN DictSet(instrument_rename_dict, doc[pos].id, found.rename_map)
              ELSE instrument_rename_dict
    /\ pos' = pos + 1
    /\ UNCHANGED <<doc, doc0, pc, part_rename_dict, part_counter, rerun>>

\* Faulty variant of CleanupItem: the numbered name is built without the
\* space, f"{swap_name}1", and so equals no proposed name.
CleanupItemNoSpace(item, rename_dict) ==
    IF item[2] = 1
    THEN LET numbered_swap_name == item[1] \o "1" IN
         [x \in DOMAIN rename_dict |->
            IF rename_dict[x].swap_name = numbered_swap_name
            THEN [rename_dict[x] EXCEPT !.swap_name = item[1]]
            ELSE rename_dict[x]]
    ELSE rename_dict

\* The inner loop of _cleanup for one counter item.
CleanupItem(item, rename_dict) ==
    IF item[2] = 1
    THEN LET numbered_swap_name == item[1] \o " 1" IN
         [x \in DOMAIN rename_dict |->
            IF rename_dict[x].swap_name = numbered_swap_name
            THEN [rename_dict[x] EXCEPT !.swap_name = item[1]]
            ELSE rename_dict[x]]
    ELSE rename_dict

\* _cleanup: the counter's items in the order the counter holds them.
RECURSIVE _cleanup(_, _)
_cleanup(counter, rename_dict) ==
    IF counter = <<>> THEN rename_dict
    ELSE _cleanup(Tail(counter), CleanupItem(Head(counter), rename_dict))

\* The discovery loop is over: process_xml goes on to cleanup_names and
\* enters rename_instruments.
CleanupNames ==
    /\ pc = "discover"
    /\ pos > Len(doc)
    /\ instrument_rename_dict' = _cleanup(instrument_counter, instrument_rename_dict)
    /\ part_rename_dict' = _cleanup(part_counter, part_rename_dict)
    /\ pc' = "rename"
    /\ pos' = 1
    /\ UNCHANGED <<doc, doc0, part_counter, instrument_counter, rerun,
                   matched_key>>

\* Faulty variant of _rename_element: the label is overwritten without the
\* assert.
_rename_element_unchecked(rename_dict) ==
    LET rename_map == DictGet(rename_dict, doc[pos].id) IN
    IF rename_map # None
    THEN [doc |-> [doc EXCEPT ![pos].name = rename_map.swap_name], pc |-> "rename"]
    ELSE [doc |-> doc, pc |-> "rename"]

\* _rename_element on the entity at pos: the tree and the control state it
\* leaves.  The assert raises out of process_xml before the assignment.
_rename_element(rename_dict) ==
    LET rename_map == DictGet(rename_dict, doc[pos].id) IN
    IF rename_map # None
    THEN IF doc[pos].name = rename_map.original_name
         THEN [doc |-> [doc EXCEPT ![pos].name = rename_map.swap_name],
               pc |-> "rename"]
         ELSE [doc |-> doc, pc |-> "failed"]
    ELSE [doc |-> doc, pc |-> "rename"]

\* rename_instruments, one score-part.
RenamePart ==
    /\ pc = "rename"
    /\ pos <= Len(doc)
    /\ doc[pos].kind = "part"
    /\ LET renamed == _rename_element(part_rename_dict) IN
        /\ doc' = renamed.doc
        /\ pc' = renamed.pc
    /\ pos' = IF pc' = "failed" THEN pos ELSE pos + 1
    /\ UNCHANGED <<doc0, part_rename_dict, instrument_rename_dict,
                   part_counter, instrument_counter, rerun, matched_key>>

\* rename_instruments, one score-instrument of the score-part.
RenameInstrument ==
    /\ pc = "rename"
    /\ pos <= Len(doc)
    /\ doc[pos].kind = "instrument"
    /\ LET renamed == _rename_element(instrument_rename_dict) IN
        /\ doc' = renamed.doc
        /\ pc' = renamed.pc
    /\ pos' = IF pc' = "failed" THEN pos ELSE pos + 1
    /\ UNCHANGED <<doc0, part_rename_dict, instrument_rename_dict,
                   part_counter, instrument_counter, rerun, matched_key>>

\* rename_instruments returns, and process_xml with it.
Finish ==
    /\ pc = "rename"
    /\ pos > Len(doc)
    /\ pc' = "done"
    /\ UNCHANGED <<doc, doc0, pos, part_rename_dict, instrument_rename_dict,
                   part_counter, instrument_counter, rerun, matched_key>>

\* A new InstrumentManager is built on the tree process_xml produced, and
\* its process_xml starts.
Rerun ==
    /\ pc = "done"
    /\ doc0' = doc
    /\ pc' = "discover"
    /\ pos' = 1
    /\ part_rename_dict' = <<>>
    /\ instrument_rename_dict' = <<>>
    /\ part_counter' = <<>>
    /\ instrument_counter' = <<>>
    /\ rerun' = TRUE
    /\ matched_key' = <<>>
    /\ UNCHANGED doc

Next ==
    \/ DiscoverPart
    \/ DiscoverInstrument
    \/ CleanupNames
    \/ RenamePart
    \/ RenameInstrument
    \/ Finish
    \/ Rerun

Spec == Init /\ [][Next]_vars

(***************************************************************************)
(* Vocabulary of the claims.                                               *)
(***************************************************************************)
\* The rename dict and the counter of a kind of entity.
PlanOf(kind) == IF kind = "part" THEN part_rename_dict ELSE instrument_rename_dict
CounterOf(kind) == IF kind = "part" THEN part_counter ELSE instrument_counter

\* Entity i has been discovered and its label matched a key of the table.
Matched(i) == i \in DOMAIN matched_key /\ matched_key[i] # 0

\* Entity i has been discovered and its label matched no key.
Unmatched(i) == i \in DOMAIN matched_key /\ matched_key[i] = 0

\* The family the label of the matched entity i resolved to.
FamilyOf(i) == instrument_swap_map[matched_key[i]][2]

\* Entities i and j are of one kind and carry one identifier.
SameKey(i, j) == doc0[i].kind = doc0[j].kind /\ doc0[i].id = doc0[j].id

\* The identifiers are unique within each kind.
UniqueIds == \A i, j \in DOMAIN doc0 : i # j => ~SameKey(i, j)

\* The number of entities of i's kind, at or before i in document order,
\* whose label resolved to i's family.
Ordinal(i) ==
    Cardinality({j \in 1..i : /\ Matched(j)
                              /\ doc0[j].kind = doc0[i].kind
                              /\ FamilyOf(j) = FamilyOf(i)})

\* The number of discovered entities of a kind whose label resolved to family.
Occurrences(kind, family) ==
    Cardinality({j \in DOMAIN matched_key : /\ Matched(j)
                                            /\ doc0[j].kind = kind
                                            /\ FamilyOf(j) = family})

\* The plan entry recorded for the matched entity i is still the one under
\* its identifier: no later matched entity of its kind carried the same one.
Survives(i) ==
    /\ Matched(i)
    /\ \A j \in DOMAIN matched_key : j > i /\ Matched(j) => ~SameKey(i, j)

\* The plan entry apply finds for entity i, None when there is none.
PlanEntry(i) == DictGet(PlanOf(doc0[i].kind), doc0[i].id)

\* f"{family} {k}"
Numbered(family, k) == family \o " " \o ToString(k)

\* The families of the table.
Families == {instrument_swap_map[j][2] : j \in DOMAIN instrument_swap_map}

(***************************************************************************)
(* C1                                                                      *)
(***************************************************************************)
\* C1: while discovery runs, every matched entity discovered so far whose
\* plan entry has not been replaced has the proposed name "<family> <k>",
\* k being the number of entities of its own kind at or before it in
\* document order whose label resolved to the same family; entities of the
\* other kind do not count.
C1_NumberedInDocumentOrder ==
    pc = "discover" =>
        \A i \in DOMAIN matched_key :
            Survives(i) =>
                PlanEntry(i) = [original_name |-> doc0[i].name,
                                swap_name |-> Numbered(FamilyOf(i), Ordinal(i))]

\* A part and two instruments of family Timpani, distinct identifiers per
\* kind: the part is "Timpani 1" and so is the first instrument.
C1_Witness ==
    /\ pc = "discover"
    /\ UniqueIds
    /\ \E p \in DOMAIN part_rename_dict :
           part_rename_dict[p].swap_name = "Timpani 1"
    /\ \E a, b \in DOMAIN instrument_rename_dict :
           /\ instrument_rename_dict[a] =
                  [original_name |-> "CinePerc Timpani", swap_name |-> "Timpani 1"]
           /\ instrument_rename_dict[b].swap_name = "Timpani 2"

(***************************************************************************)
(* C2                                                                      *)
(***************************************************************************)
\* The identifiers of the plan entries of a kind that belong to a family.
EntriesOf(kind, family) ==
    {doc0[i].id : i \in {j \in DOMAIN matched_key :
                            /\ Survives(j)
                            /\ doc0[j].kind = kind
                            /\ FamilyOf(j) = family}}

\* C2: after discovery and cleanup_names, per kind: the counter of a family
\* is the number of its matched occurrences; a plan entry of a family with
\* one occurrence proposes "<family>", one of a family with N >= 2
\* occurrences proposes "<family> <k>" with k its place among them; and when
\* identifiers are unique the entries of the family are N and their proposed
\* names are exactly "<family>" (N = 1) or "<family> 1" .. "<family> N".
C2_SingleStrippedOthersNumbered ==
    pc \in {"rename", "done", "failed"} =>
        \A i \in DOMAIN matched_key :
            Matched(i) =>
                LET kind == doc0[i].kind
                    family == FamilyOf(i)
                    n == Occurrences(kind, family)
                    entries == EntriesOf(kind, family)
                IN  /\ CounterGet(CounterOf(kind), family) = n
                    /\ Survives(i) =>
                         PlanEntry(i).swap_name =
                             IF n = 1 THEN family
                             ELSE Numbered(family, Ordinal(i))
                    /\ UniqueIds =>
                         /\ Cardinality(entries) = n
                         /\ {PlanOf(kind)[x].swap_name : x \in entries} =
                                IF n = 1 THEN {family}
                                ELSE {Numbered(family, k) : k \in 1..n}

\* Three parts: two of family Timpani keep their numbers, the single one of
\* family French Horn lost its number.
C2_Witness ==
    /\ pc = "rename"
    /\ UniqueIds
    /\ {part_rename_dict[x].swap_name : x \in DOMAIN part_rename_dict} =
           {"Timpani 1", "Timpani 2", "French Horn"}

(***************************************************************************)
(* C3                                                                      *)
(***************************************************************************)
\* C3: the entity discovery has just resolved matched the first key of the
\* table, in insertion order, that occurs in its label, and its rename map
\* names the family of that key; it matched none when no key occurs in its
\* label; and every counter item counts the matched occurrences of its
\* family, so a label without a match changes no counter.
C3_FirstMatchWins ==
    pc = "discover" /\ pos > 1 =>
        LET name == doc0[pos - 1].name
            kind == doc0[pos - 1].kind
            hits == {j \in DOMAIN instrument_swap_map :
                        StrIn(instrument_swap_map[j][1], name)}
        IN  /\ hits = {} => matched_key[pos - 1] = 0
            /\ hits # {} =>
                 LET first == CHOOSE j \in hits : \A h \in hits : j <= h
                     family == instrument_swap_map[first][2]
                 IN  /\ matched_key[pos - 1] = first
                     /\ PlanEntry(pos - 1) =
                            [original_name |-> name,
                             swap_name |->
                                 Numbered(family, CounterGet(CounterOf(kind), family))]
            /\ \A k \in {"part", "instrument"} :
                 \A c \in DOMAIN CounterOf(k) :
                     /\ CounterOf(k)[c][2] >= 1
                     /\ CounterOf(k)[c][2] = Occurrences(k, CounterOf(k)[c][1])

\* A label in which several keys occur ("Violin 1" and, later in the table,
\* "Cinestrings Solo Violin 1") has just been resolved to the first of them,
\* after a label without a match.
C3_Witness ==
    /\ pc = "discover"
    /\ pos > 2
    /\ doc0[pos - 1].name = "Cinestrings Solo Violin 1"
    /\ Matched(pos - 1)
    /\ instrument_swap_map[matched_key[pos - 1]][1] = "Violin 1"
    /\ \E j \in 1..(pos - 2) : doc0[j].name = "Kazoo" /\ Unmatched(j)

(***************************************************************************)
(* C4                                                                      *)
(***************************************************************************)
\* C4: an entity whose label matched no key keeps its label through
\* process_xml, and no plan entry stands under its identifier unless a
\* matched entity of its kind carries the same identifier; apply changes
\* nothing but labels, and only to the proposed name of the plan entry under
\* the entity's identifier.
C4_UnmatchedUntouched ==
    /\ Len(doc) = Len(doc0)
    /\ \A i \in DOMAIN doc :
        /\ doc[i].kind = doc0[i].kind
        /\ doc[i].id = doc0[i].id
        /\ Unmatched(i) =>
             /\ doc[i].name = doc0[i].name
             /\ (\A j \in DOMAIN matched_key : Matched(j) => ~SameKey(i, j))
                    => PlanEntry(i) = None
        /\ doc[i].name # doc0[i].name =>
             /\ PlanEntry(i) # None
             /\ doc[i].name = PlanEntry(i).swap_name

\* process_xml returned on a document with unique identifiers, an entity
\* without a match and an entity whose label it rewrote.
C4_Witness ==
    /\ pc = "done"
    /\ UniqueIds
    /\ \E i \in DOMAIN doc : Unmatched(i) /\ PlanEntry(i) = None
    /\ \E j \in DOMAIN doc : doc[j].name # doc0[j].name

(***************************************************************************)
(* C5                                                                      *)
(***************************************************************************)
\* C5: no entry of the table is shadowed: an entity whose label equals a raw
\* pattern of the table resolves to the family that pattern is mapped to.
C5_NoEntryShadowed ==
    \A i \in DOMAIN matched_key :
        \A j \in DOMAIN instrument_swap_map :
            doc0[i].name = instrument_swap_map[j][1] =>
                Matched(i) /\ FamilyOf(i) = instrument_swap_map[j][2]

(***************************************************************************)
(* C6                                                                      *)
(***************************************************************************)
\* C6: every entity apply has gone past that has a plan entry carried the
\* entry's original name and now carries its proposed name; and apply has
\* failed exactly at an entity that has a plan entry whose original name
\* differs from the entity's label, which it left as it was.
C6_MismatchFailsMatchOverwrites ==
    pc \in {"rename", "done", "failed"} =>
        /\ \A i \in 1..(pos - 1) :
             PlanEntry(i) # None =>
                 /\ doc0[i].name = PlanEntry(i).original_name
                 /\ doc[i].name = PlanEntry(i).swap_name
        /\ pc = "failed" =>
             /\ PlanEntry(pos) # None
             /\ doc0[pos].name # PlanEntry(pos).original_name
             /\ doc[pos].name = doc0[pos].name

\* Apply overwrote one label and then failed on a later entity.
C6_Witness ==
    /\ pc = "failed"
    /\ \E i \in 1..(pos - 1) : doc[i].name # doc0[i].name

(***************************************************************************)
(* C7                                                                      *)
(***************************************************************************)
\* C7: apply is all-or-nothing: when it fails, every label of the document
\* is what it was before apply started.
C7_ApplyAllOrNothing == pc = "failed" => doc = doc0

(***************************************************************************)
(* C8                                                                      *)
(***************************************************************************)
\* Every family a label can resolve to resolves, bare or numbered, to itself
\* or, bare and numbered alike, to nothing.
CanonicalNamesStable ==
    \A j \in DOMAIN instrument_swap_map :
        LET first == FirstKeyIn(instrument_swap_map[j][1])
            family == instrument_swap_map[first][2]
            bare == FirstKeyIn(family)
        IN  /\ bare = 0 \/ instrument_swap_map[bare][2] = family
            /\ \A k \in 1..MaxEntities :
                 LET numbered == FirstKeyIn(Numbered(family, k))
                 IN  /\ (numbered = 0) = (bare = 0)
                     /\ numbered = 0 \/ instrument_swap_map[numbered][2] = family

\* C8: a process_xml that runs, with a new manager, on a document an earlier
\* process_xml produced changes no label and does not fail, when the
\* identifiers are unique per kind.
C8_NormalizeIdempotent ==
    /\ CanonicalNamesStable
    /\ rerun /\ UniqueIds => doc = doc0 /\ pc # "failed"

\* The second run returned on a document the first run left with numbered
\* names and with a canonical name the table does not know.
C8_Witness ==
    /\ rerun
    /\ pc = "done"
    /\ UniqueIds
    /\ \E i, j \in DOMAIN doc :
           doc[i].name = "Timpani 2" /\ doc[j].name = "French Horn"

(***************************************************************************)
(* C9                                                                      *)
(***************************************************************************)
\* C9: on a document whose identifiers are unique per kind the assertion of
\* _rename_element never fails: whenever apply is at an entity that has a
\* plan entry, the entity's label is the entry's original name.
C9_NoMismatchWithUniqueIds ==
    UniqueIds =>
        /\ pc # "failed"
        /\ pc = "rename" /\ pos <= Len(doc) /\ PlanEntry(pos) # None =>
               doc[pos].name = PlanEntry(pos).original_name

\* process_xml returned on a document with unique identifiers per kind in
\* which a part and an instrument share an identifier, both renamed.
C9_Witness ==
    /\ pc = "done"
    /\ UniqueIds
    /\ \E i, j \in DOMAIN doc :
           /\ doc0[i].kind = "part" /\ doc0[j].kind = "instrument"
           /\ doc0[i].id = doc0[j].id
           /\ doc0[i].name # doc0[j].name
           /\ doc[i].name # doc0[i].name
           /\ doc[j].name # doc0[j].name

(***************************************************************************)
(* C10                                                                     *)
(***************************************************************************)
\* No family of the table is another family followed by a number, so a name
\* stripped of its number is no numbered name.
NoFamilyIsANumberedFamily ==
    \A family, other \in Families :
        \A k \in 1..MaxEntities : family # Numbered(other, k)

\* C10: with unique identifiers per kind, after cleanup no two plan entries
\* of one kind propose the same name, and when process_xml has returned no
\* two matched entities of one kind carry the same label.
C10_ProposedNamesDistinct ==
    /\ NoFamilyIsANumberedFamily
    /\ UniqueIds /\ pc \in {"rename", "done"} =>
        /\ \A kind \in {"part", "instrument"} :
             \A a, b \in DOMAIN PlanOf(kind) :
                 a # b => PlanOf(kind)[a].swap_name # PlanOf(kind)[b].swap_name
        /\ pc = "done" =>
             \A i, j \in DOMAIN doc :
                 (i # j /\ Matched(i) /\ Matched(j) /\ doc0[i].kind = doc0[j].kind)
                     => doc[i].name # doc[j].name

\* Two parts of family Violin 1 and a single part of family Timpani: the
\* family that ends in a digit is numbered further, the single one is bare.
C10_Witness ==
    /\ pc = "done"
    /\ UniqueIds
    /\ {doc[i].name : i \in DOMAIN doc} = {"Violin 1 1", "Violin 1 2", "Timpani"}
    /\ \A i \in DOMAIN doc : doc0[i].kind = "part"

====
